---- MODULE Spec2Model ----
(***************************************************************************)
(* Model of the DocuSign demo application's callback handling              *)
(* (demo/django_docusign_demo/views.py, SignatureCallbackView) over the    *)
(* Signature and Signer records of demo/django_docusign_demo/models.py.    *)
(*                                                                         *)
(* Persisted state: one Signature row, its Signer rows and the file        *)
(* storage holding document blobs.  Each request (Procs) works on its own  *)
(* in-memory copy of the Signature row, as a Django view does.             *)
(***************************************************************************)
EXTENDS Integers, Sequences, FiniteSets, TLC

\* Number of callback invocations explored in one behaviour.
MaxCalls == 2

\* Value of status_datetime written by auto_now_add when the row is created.
CreatedAt == 0

\* status_datetime=None, the default of both handlers.
NoTime == -1

\* The requests: Spec serves one at a time, SpecRace lets two interleave.
Procs == {1, 2}

-----------------------------------------------------------------------------
(* models.py *)

\* choices= of Signature.status and Signer.status.
Status == {"draft", "sent", "delivered", "completed", "declined"}

\* A status DocuSign reports that is not among the choices.
Unrecognized == "voided"

AnyStatus == Status \cup {Unrecognized}

\* Primary keys of the Signer rows created with the Signature.
SignerIds == {1, 2}

\* A primary key that names no Signer row.
UnknownSignerIds == {3}

\* message=u'', the default of update_signer.
DefaultMessage == ""

Messages == {DefaultMessage, "recipient refused"}

\* Byte contents of documents.
Unsigned == "unsigned"

\* What get_docusign_documents can yield: no document at all, one, or several.
Documents == {<<>>, <<"signed-a">>, <<"signed-b", "signed-a">>}

\* document_title values (CharField, blank=True), as sequences of characters.
Titles == {<<"C", " ", "Q", "3">>, <<" ", "a", "!", "-", " ", "b">>}

\* A file name: directory, stem, the counter storage appends to make the
\* name unique, and extension.  The empty name is a FileField without file.
NoName == [dir |-> "", stem |-> <<>>, n |-> 0, ext |-> ""]

\* upload_to of Signature.document.
upload_to == "signatures"

\* Names under which CreateSignatureView stores an uploaded document.
UploadedNames == {[dir |-> upload_to, stem |-> <<"u", "p">>, n |-> 0, ext |-> ".pdf"]}

-----------------------------------------------------------------------------
(* django.utils.text.slugify, as views.py line 217 applies it to the title *)

IsWordChar(c) == c \in {"C", "Q", "a", "b", "c", "q", "u", "p", "3"}

IsSpace(c) == c = " "

Lower(c) == CASE c = "C" -> "c" [] c = "Q" -> "q" [] OTHER -> c

\* re.sub('[^\w\s-]', '', value)
RECURSIVE KeepSlugChars(_)
KeepSlugChars(s) ==
    IF s = <<>> THEN <<>>
    ELSE IF IsWordChar(Head(s)) \/ IsSpace(Head(s)) \/ Head(s) = "-"
         THEN <<Head(s)>> \o KeepSlugChars(Tail(s))
         ELSE KeepSlugChars(Tail(s))

RECURSIVE LStrip(_)
LStrip(s) == IF s # <<>> /\ IsSpace(Head(s)) THEN LStrip(Tail(s)) ELSE s

RECURSIVE RStrip(_)
RStrip(s) ==
    IF s # <<>> /\ IsSpace(s[Len(s)]) THEN RStrip(SubSeq(s, 1, Len(s) - 1)) ELSE s

\* .strip()
Strip(s) == RStrip(LStrip(s))

\* .lower()
LowerAll(s) == [i \in 1..Len(s) |-> Lower(s[i])]

\* re.sub('[-\s]+', '-', value): every run of hyphens and spaces becomes "-".
RECURSIVE CollapseSeparators(_, _)
CollapseSeparators(s, inRun) ==
    IF s = <<>> THEN <<>>
    ELSE IF IsSpace(Head(s)) \/ Head(s) = "-"
         THEN (IF inRun THEN <<>> ELSE <<"-">>) \o CollapseSeparators(Tail(s), TRUE)
         ELSE <<Head(s)>> \o CollapseSeparators(Tail(s), FALSE)

slugify(value) == CollapseSeparators(LowerAll(Strip(KeepSlugChars(value))), FALSE)

-----------------------------------------------------------------------------
(* The file storage behind Signature.document (FieldFile.save / delete) *)

EmptyStorage == [name \in {} |-> Unsigned]

\* generate_filename: the base name of the given name, under upload_to.
GenerateFilename(name) == [name EXCEPT !.dir = upload_to]

\* get_available_name: a name no stored blob has yet.
RECURSIVE AvailableName(_, _)
AvailableName(name, blobs) ==
    IF name \in DOMAIN blobs
    THEN AvailableName([name EXCEPT !.n = @ + 1], blobs)
    ELSE name

\* storage.delete(name): removing a blob that is not there is no error.
StorageDelete(blobs, name) == [x \in DOMAIN blobs \ {name} |-> blobs[x]]

\* storage.save(name, content), the name being available.
StorageSave(blobs, name, content) ==
    [x \in DOMAIN blobs \cup {name} |-> IF x = name THEN content ELSE blobs[x]]

-----------------------------------------------------------------------------
(* views.py, SignatureCallbackView: the pure parts *)

\* Faulty variant: the given timestamp is dropped: always now().
StatusDatetimeAlwaysNow(status_datetime, t) == t

\* Line 203: status_datetime or now()
StatusDatetimeOrNow(status_datetime, t) ==
    IF status_datetime = NoTime THEN t ELSE status_datetime

\* Faulty variant: "and" in place of "or".
NeedsDocumentAnd(status, document) == status = "completed" /\ document = NoName

\* Line 210: status == 'completed' or not self.signature.document
NeedsDocument(status, document) == status = "completed" \/ document = NoName

\* Faulty variant: the name is derived from the title every time.
DeriveFilenameFromTitle(document, title) ==
    [dir |-> "", stem |-> slugify(title), n |-> 0, ext |-> ".pdf"]

\* Lines 215-218: the old document's name, else "<slug of the title>.pdf".
DeriveFilename(document, title) ==
    IF document # NoName
    THEN document
    ELSE [dir |-> "", stem |-> slugify(title), n |-> 0, ext |-> ".pdf"]

\* Line 212: .next() takes the first document of the backend's answer.
FirstDocument(documents) == Head(documents)

-----------------------------------------------------------------------------
(* State *)

VARIABLES
    signature,   \* the persisted Signature row
    signers,     \* the persisted Signer rows, by primary key
    storage,     \* the stored blobs: name -> content
    now,         \* the clock read by now()
    pc,          \* where each request stands
    req,         \* the arguments of the handler call each request makes
    mem,         \* self.signature, the request's in-memory copy of the row
    stream,      \* the document stream of the request: none, open or closed
    documents,   \* what the backend answered to the request
    filename,    \* the local variable filename
    err,         \* the exception the request is raising, "" when none
    fetched,     \* whether the request called get_docusign_documents
    pre,         \* the persisted state when the request began
    order,       \* the requests begun since the system was last idle
    overlap      \* whether one of them began while another was running

vars == <<signature, signers, storage, now, pc, req, mem, stream, documents,
          filename, err, fetched, pre, order, overlap>>

NoRequest ==
    [kind |-> "none", signer_id |-> 0, status |-> "",
     status_datetime |-> NoTime, message |-> DefaultMessage]

BlankSignature ==
    [status |-> "", status_datetime |-> CreatedAt, document |-> NoName,
     document_title |-> <<>>]

\* models.py lines 72-93: a Signer as signers.create() leaves it.
NewSigner ==
    [status |-> "draft", status_datetime |-> CreatedAt, status_details |-> ""]

BlankSnapshot ==
    [signature |-> BlankSignature,
     signers |-> [i \in SignerIds |-> NewSigner],
     storage |-> EmptyStorage]

Snapshot == [signature |-> signature, signers |-> signers, storage |-> storage]

\* A request that is executing a handler (neither waiting nor finished).
Running(p) == pc[p] \notin {"idle", "done"}

Finished(p) == pc[p] = "done"

\* models.py lines 17-46 and views.py lines 86-91, 148-151: the Signature is
\* created in draft, with the uploaded document or (from a template) none.
Init ==
    /\ \E title \in Titles, document \in UploadedNames \cup {NoName} :
          /\ signature = [status |-> "draft", status_datetime |-> CreatedAt,
                          document |-> document, document_title |-> title]
          /\ storage = IF document = NoName THEN EmptyStorage
                       ELSE StorageSave(EmptyStorage, document, Unsigned)
    /\ signers = [i \in SignerIds |-> NewSigner]
    /\ now = CreatedAt + 1
    /\ pc = [p \in Procs |-> "idle"]
    /\ req = [p \in Procs |-> NoRequest]
    /\ mem = [p \in Procs |-> BlankSignature]
    /\ stream = [p \in Procs |-> "none"]
    /\ documents = [p \in Procs |-> <<>>]
    /\ filename = [p \in Procs |-> NoName]
    /\ err = [p \in Procs |-> ""]
    /\ fetched = [p \in Procs |-> FALSE]
    /\ pre = [p \in Procs |-> BlankSnapshot]
    /\ order = <<>>
    /\ overlap = FALSE

\* Faulty variant: save(update_fields=['status']): only the status is written.
SavedRowStatusOnly(row, instance) == [row EXCEPT !.status = instance.status]

\* Model.save(): every field of the in-memory instance is written to the row.
SavedRow(row, instance) == instance

-----------------------------------------------------------------------------
(* update_signer, views.py lines 199-205 *)

update_signer(p) ==
    /\ pc[p] = "idle"
    /\ now - CreatedAt <= MaxCalls
    /\ \E signer_id \in SignerIds \cup UnknownSignerIds, status \in AnyStatus,
          status_datetime \in {NoTime, now}, message \in Messages :
          /\ req' = [req EXCEPT ![p] =
                        [kind |-> "signer", signer_id |-> signer_id,
                         status |-> status, status_datetime |-> status_datetime,
                         message |-> message]]
          /\ IF signer_id \in DOMAIN signers
             THEN /\ signers' = [signers EXCEPT ![signer_id] =
                                    [status |-> status,
                                     status_datetime |->
                                         StatusDatetimeOrNow(status_datetime, now + 1),
                                     status_details |-> message]]
                  /\ err' = [err EXCEPT ![p] = ""]
             ELSE /\ signers' = signers
                  /\ err' = [err EXCEPT ![p] = "DoesNotExist"]
    /\ now' = now + 1
    /\ pre' = [pre EXCEPT ![p] = Snapshot]
    /\ pc' = [pc EXCEPT ![p] = "done"]
    /\ UNCHANGED <<signature, storage, mem, stream, documents, filename,
                   fetched, order, overlap>>

-----------------------------------------------------------------------------
(* update_signature, views.py lines 207-224 *)

\* The callback view resolves self.signature and calls update_signature.
receive_signature(p) ==
    /\ pc[p] = "idle"
    /\ now - CreatedAt <= MaxCalls
    /\ \E status \in AnyStatus, status_datetime \in {NoTime, now} :
          req' = [req EXCEPT ![p] =
                    [kind |-> "signature", signer_id |-> 0, status |-> status,
                     status_datetime |-> status_datetime,
                     message |-> DefaultMessage]]
    /\ now' = now + 1
    /\ mem' = [mem EXCEPT ![p] = signature]
    /\ pre' = [pre EXCEPT ![p] = Snapshot]
    /\ pc' = [pc EXCEPT ![p] = "status"]
    /\ IF \A q \in Procs \ {p} : pc[q] = "idle"
       THEN order' = <<p>> /\ overlap' = FALSE
       ELSE /\ order' = Append(order, p)
            /\ overlap' = (overlap \/ \E q \in Procs \ {p} : Running(q))
    /\ UNCHANGED <<signature, signers, storage, stream, documents, filename,
                   err, fetched>>

\* Faulty variant: the status is set in memory and saved only with the document.
save_status_deferred(p) ==
    /\ pc[p] = "status"
    /\ mem' = [mem EXCEPT ![p].status = req[p].status]
    /\ pc' = [pc EXCEPT ![p] =
                 IF NeedsDocument(req[p].status, mem[p].document)
                 THEN "fetch" ELSE "done"]
    /\ UNCHANGED <<signature, signers, storage, now, req, stream, documents,
                   filename, err, fetched, pre, order, overlap>>

\* Lines 208-210: set the status, save the row, decide whether to fetch.
save_status(p) ==
    /\ pc[p] = "status"
    /\ mem' = [mem EXCEPT ![p].status = req[p].status]
    /\ signature' = SavedRow(signature, mem'[p])
    /\ pc' = [pc EXCEPT ![p] =
                 IF NeedsDocument(req[p].status, mem[p].document)
                 THEN "fetch" ELSE "done"]
    /\ UNCHANGED <<signers, storage, now, req, stream, documents, filename,
                   err, fetched, pre, order, overlap>>

\* Lines 211-212: ask the backend for the documents and take the first; the
\* call raises when the request fails or the backend has no document.
get_docusign_documents(p) ==
    /\ pc[p] = "fetch"
    /\ fetched' = [fetched EXCEPT ![p] = TRUE]
    /\ \E answer \in Documents :
          IF answer = <<>>
          THEN /\ err' = [err EXCEPT ![p] = "UpstreamFetchError"]
               /\ pc' = [pc EXCEPT ![p] = "done"]
               /\ UNCHANGED <<documents, stream>>
          ELSE /\ documents' = [documents EXCEPT ![p] = answer]
               /\ stream' = [stream EXCEPT ![p] = "open"]
               /\ pc' = [pc EXCEPT ![p] = "delete"]
               /\ err' = err
    /\ UNCHANGED <<signature, signers, storage, now, req, mem, filename, pre,
                   order, overlap>>

\* Lines 215-219: derive the filename, then document.delete(save=False):
\* the blob goes, the in-memory name is cleared, the row is not saved.
delete_document(p) ==
    /\ pc[p] = "delete"
    /\ filename' = [filename EXCEPT ![p] =
                       DeriveFilename(mem[p].document, mem[p].document_title)]
    /\ \/ /\ storage' = IF mem[p].document = NoName THEN storage
                         ELSE StorageDelete(storage, mem[p].document)
          /\ mem' = [mem EXCEPT ![p].document = NoName]
          /\ pc' = [pc EXCEPT ![p] = "read"]
          /\ err' = err
       \/ /\ mem[p].document # NoName
          /\ err' = [err EXCEPT ![p] = "DeleteError"]
          /\ pc' = [pc EXCEPT ![p] = "finally"]
          /\ UNCHANGED <<storage, mem>>
    /\ UNCHANGED <<signature, signers, now, req, stream, documents, fetched,
                   pre, order, overlap>>

\* Line 221: document.read(), evaluated before document.save is entered.
read_document(p) ==
    /\ pc[p] = "read"
    /\ \/ /\ pc' = [pc EXCEPT ![p] = "store"]
          /\ err' = err
       \/ /\ err' = [err EXCEPT ![p] = "ReadError"]
          /\ pc' = [pc EXCEPT ![p] = "finally"]
    /\ UNCHANGED <<signature, signers, storage, now, req, mem, stream,
                   documents, filename, fetched, pre, order, overlap>>

\* Line 220, document.save: the content is stored under an available name
\* and the in-memory name is set to it.
store_document(p) ==
    /\ pc[p] = "store"
    /\ \/ LET name == AvailableName(GenerateFilename(filename[p]), storage)
          IN  /\ storage' = StorageSave(storage, name, FirstDocument(documents[p]))
              /\ mem' = [mem EXCEPT ![p].document = name]
              /\ pc' = [pc EXCEPT ![p] = "save"]
              /\ err' = err
       \/ /\ err' = [err EXCEPT ![p] = "StoreError"]
          /\ pc' = [pc EXCEPT ![p] = "finally"]
          /\ UNCHANGED <<storage, mem>>
    /\ UNCHANGED <<signature, signers, now, req, stream, documents, filename,
                   fetched, pre, order, overlap>>

\* Line 222, save=True: the row is saved from the in-memory instance.
save_document(p) ==
    /\ pc[p] = "save"
    /\ signature' = SavedRow(signature, mem[p])
    /\ pc' = [pc EXCEPT ![p] = "finally"]
    /\ UNCHANGED <<signers, storage, now, req, mem, stream, documents, filename,
                   err, fetched, pre, order, overlap>>

\* Faulty variant: close() after the try block instead of in finally.
close_document_on_success(p) ==
    /\ pc[p] = "finally"
    /\ stream' = [stream EXCEPT ![p] = IF err[p] = "" THEN "closed" ELSE @]
    /\ pc' = [pc EXCEPT ![p] = "done"]
    /\ UNCHANGED <<signature, signers, storage, now, req, mem, documents,
                   filename, err, fetched, pre, order, overlap>>

\* Lines 223-224: finally: document.close(), on success and on failure.
close_document(p) ==
    /\ pc[p] = "finally"
    /\ stream' = [stream EXCEPT ![p] = "closed"]
    /\ pc' = [pc EXCEPT ![p] = "done"]
    /\ UNCHANGED <<signature, signers, storage, now, req, mem, documents,
                   filename, err, fetched, pre, order, overlap>>

\* The request ends: its response (or its error) goes back to the caller.
respond(p) ==
    /\ pc[p] = "done"
    /\ pc' = [pc EXCEPT ![p] = "idle"]
    /\ req' = [req EXCEPT ![p] = NoRequest]
    /\ mem' = [mem EXCEPT ![p] = BlankSignature]
    /\ stream' = [stream EXCEPT ![p] = "none"]
    /\ documents' = [documents EXCEPT ![p] = <<>>]
    /\ filename' = [filename EXCEPT ![p] = NoName]
    /\ err' = [err EXCEPT ![p] = ""]
    /\ fetched' = [fetched EXCEPT ![p] = FALSE]
    /\ pre' = [pre EXCEPT ![p] = BlankSnapshot]
    /\ IF \A q \in Procs \ {p} : pc[q] = "idle"
       THEN order' = <<>> /\ overlap' = FALSE
       ELSE UNCHANGED <<order, overlap>>
    /\ UNCHANGED <<signature, signers, storage, now>>

update_signature(p) ==
    \/ receive_signature(p)
    \/ save_status(p)
    \/ get_docusign_documents(p)
    \/ delete_document(p)
    \/ read_document(p)
    \/ store_document(p)
    \/ save_document(p)
    \/ close_document(p)

-----------------------------------------------------------------------------
(* Specifications *)

\* One request at a time: each callback runs to completion before the next.
Next ==
    \/ update_signer(1)
    \/ update_signature(1)
    \/ respond(1)

Spec == Init /\ [][Next]_vars

\* Two callbacks for the same Signature, one per request, their steps
\* interleaved.
NextRace ==
    \E p \in Procs :
        \/ now - CreatedAt <= Cardinality(Procs) /\ receive_signature(p)
        \/ save_status(p)
        \/ get_docusign_documents(p)
        \/ delete_document(p)
        \/ read_document(p)
        \/ store_document(p)
        \/ save_document(p)
        \/ close_document(p)
        \/ respond(p)

SpecRace == Init /\ [][NextRace]_vars

-----------------------------------------------------------------------------
(* Properties *)

SignatureCall(p) == Finished(p) /\ req[p].kind = "signature"

SignerCall(p) == Finished(p) /\ req[p].kind = "signer"

\* The order draft < sent < delivered < completed.
Rank(status) ==
    CASE status = "draft" -> 0
      [] status = "sent" -> 1
      [] status = "delivered" -> 2
      [] status = "completed" -> 3
      [] OTHER -> 4

\* A status change the lifecycle allows: forward in the order, or to
\* declined from sent or delivered; nothing leaves completed or declined.
Forward(old, new) ==
    \/ new = old
    \/ /\ old \in {"draft", "sent", "delivered"}
       /\ new \in {"sent", "delivered", "completed"}
       /\ Rank(old) < Rank(new)
    \/ old \in {"sent", "delivered"} /\ new = "declined"

\* C1: over any sequence of callback-handler calls the persisted status of
\* the Signature and of every Signer only moves forward in
\* draft < sent < delivered < completed, reaches declined only from sent or
\* delivered, and never changes once completed or declined.
StatusNeverMovesBackward ==
    [][/\ Forward(signature.status, signature'.status)
       /\ \A i \in SignerIds : Forward(signers[i].status, signers'[i].status)]_vars

\* C2: a handler call with a status outside the five choices fails with an
\* error and leaves every persisted status as it was.
UnrecognizedStatusRejected ==
    \A p \in Procs :
        Finished(p) /\ req[p].status \notin Status =>
            /\ err[p] # ""
            /\ signature.status = pre[p].signature.status
            /\ \A i \in SignerIds : signers[i].status = pre[p].signers[i].status

\* C3: once update_signature(status, status_datetime) has written the
\* status, the Signature's persisted status_datetime is the supplied
\* timestamp, or the current time when none was supplied.
StatusDatetimeFollowsStatusWrite ==
    \A p \in Procs :
        SignatureCall(p) =>
            signature.status_datetime =
                (IF req[p].status_datetime = NoTime THEN now
                 ELSE req[p].status_datetime)

\* C4: update_signature asks the backend for the document exactly when the
\* new status is completed or the Signature has no stored document; a call
\* that does not ask leaves the document reference and the storage as they
\* were.
FetchIffCompletedOrNoDocument ==
    \A p \in Procs :
        SignatureCall(p) =>
            /\ fetched[p] <=>
                  (req[p].status = "completed"
                   \/ pre[p].signature.document = NoName)
            /\ ~fetched[p] =>
                  /\ signature.document = pre[p].signature.document
                  /\ storage = pre[p].storage

\* C4 witness: a sent notification for a Signature that has its document.
NoFetchForSentWithDocument ==
    \E p \in Procs :
        /\ SignatureCall(p)
        /\ req[p].status = "sent"
        /\ pre[p].signature.document # NoName
        /\ ~fetched[p]
        /\ signature.status = "sent"

\* C5: when the fetch fails the call ends in error with the new status
\* persisted and the document reference and the storage as before the call.
StatusPersistedWhenFetchFails ==
    \A p \in Procs :
        SignatureCall(p) /\ err[p] = "UpstreamFetchError" =>
            /\ signature.status = req[p].status
            /\ signature.document = pre[p].signature.document
            /\ storage = pre[p].storage
            /\ stream[p] = "none"

\* C5 witness: completed is persisted although the fetch failed.
CompletedPersistedFetchFailed ==
    \E p \in Procs :
        /\ SignatureCall(p)
        /\ err[p] = "UpstreamFetchError"
        /\ req[p].status = "completed"
        /\ pre[p].signature.status # "completed"
        /\ signature.status = "completed"

\* C6: a document stream obtained from the backend is closed when the call
\* exits, whether it returns or raises while deleting, reading or storing.
StreamClosedOnExit ==
    \A p \in Procs :
        SignatureCall(p) =>
            /\ stream[p] # "open"
            /\ documents[p] # <<>> => stream[p] = "closed"

\* C6 witness: the store step raised and the stream is closed.
StreamClosedAfterStoreError ==
    \E p \in Procs :
        SignatureCall(p) /\ err[p] = "StoreError" /\ stream[p] = "closed"

\* C7: for an existing signer update_signer persists exactly the given
\* status, the given timestamp (the current time when omitted) and the given
\* message (empty when omitted), and changes nothing else: the Signature,
\* the other Signers and the storage are as before the call.
UpdateSignerWritesOneRecord ==
    \A p \in Procs :
        SignerCall(p) /\ req[p].signer_id \in SignerIds =>
            /\ err[p] = ""
            /\ signers[req[p].signer_id] =
                  [status |-> req[p].status,
                   status_datetime |->
                       (IF req[p].status_datetime = NoTime THEN now
                        ELSE req[p].status_datetime),
                   status_details |-> req[p].message]
            /\ \A j \in SignerIds \ {req[p].signer_id} :
                  signers[j] = pre[p].signers[j]
            /\ signature = pre[p].signature
            /\ storage = pre[p].storage

\* C7 witness: signer 2 declines with a timestamp and a message, after
\* signer 1 was updated.
SignerDeclinedWithMessage ==
    \E p \in Procs :
        /\ SignerCall(p)
        /\ req[p].signer_id = 2
        /\ req[p].status = "declined"
        /\ req[p].status_datetime # NoTime
        /\ req[p].status_datetime # now
        /\ signers[2].status_details = "recipient refused"
        /\ signers[1].status # "draft"

\* The name a document derived from the title is stored under.
SlugName(title) ==
    [dir |-> upload_to, stem |-> slugify(title), n |-> 0, ext |-> ".pdf"]

SerialCall(s, status, answer) ==
    LET row == [s.signature EXCEPT !.status = status]
        old == s.signature.document
        given == IF old # NoName THEN old
                 ELSE [dir |-> "", stem |-> slugify(s.signature.document_title),
                       n |-> 0, ext |-> ".pdf"]
        blobs == IF old = NoName THEN s.storage ELSE StorageDelete(s.storage, old)
        name == AvailableName(GenerateFilename(given), blobs)
    IN  IF status = "completed" \/ old = NoName
        THEN [signature |-> [row EXCEPT !.document = name],
              storage |-> StorageSave(blobs, name, answer[1])]
        ELSE [signature |-> row, storage |-> s.storage]

\* The answers the backend may have given request p in a serial execution:
\* the one it got, or any when it did not ask.
AnswersOf(p) ==
    IF documents[p] # <<>> THEN {documents[p]} ELSE Documents \ {<<>>}

\* The persisted states that running a's call and then b's call, each to
\* completion, can end in.
SerialOutcomes(a, b) ==
    {SerialCall(SerialCall([signature |-> pre[a].signature,
                            storage |-> pre[a].storage],
                           req[a].status, x),
                req[b].status, y) : x \in AnswersOf(a), y \in AnswersOf(b)}

BothSucceeded ==
    /\ Len(order) = 2
    /\ order[1] # order[2]
    /\ \A p \in Procs : SignatureCall(p) /\ err[p] = ""

Persisted == [signature |-> signature, storage |-> storage]

\* C9: two update_signature calls that do not overlap leave the persisted
\* state of their serial execution; nothing else orders the calls, so the
\* state of C9's witness, which no serial execution produces, is reached
\* when they interleave.
SerialWhenNotOverlapping ==
    BothSucceeded /\ ~overlap => Persisted \in SerialOutcomes(order[1], order[2])

\* C9 witness: both calls loaded the same row, both succeeded, and the
\* persisted state is that of neither serial execution.
RaceLeavesNonSerialState ==
    /\ BothSucceeded
    /\ overlap
    /\ pre[1].signature = pre[2].signature
    /\ pre[1].storage = pre[2].storage
    /\ req[1].status # req[2].status
    /\ Persisted \notin SerialOutcomes(1, 2) \cup SerialOutcomes(2, 1)

\* C10: whenever no handler is running, a non-empty persisted document
\* reference names a blob that exists in storage, also after a call failed
\* part-way through replacing the document.
DocumentReferenceNamesStoredBlob ==
    (\A p \in Procs : ~Running(p)) =>
        (signature.document # NoName => signature.document \in DOMAIN storage)

====
